---- MODULE Spec2Model ----
(***************************************************************************)
(* Model of scraper/cgesp_scraper.py: the CGESP weather-station scraper.   *)
(*                                                                         *)
(* Texts are sequences of lexemes: one-character strings, plus the fixed   *)
(* words the program's regular expressions look for ("Temperatura",        *)
(* "Atual:", ...) taken as single lexemes.  A floating-point value is a    *)
(* decimal m * 10^-e in lowest terms.  A Python dict is a function whose   *)
(* DOMAIN is its key set, so the empty dict {} has DOMAIN {}.              *)
(***************************************************************************)
EXTENDS Integers, Sequences, FiniteSets, TLC

VARIABLES
    pc,            \* position of main() / scrape_data()
    scan_interval, \* args.scan_interval
    station_code,  \* args.station_code
    now,           \* time.time()
    start_time,    \* main: start_time
    sleep_time,    \* main: sleep_time
    driver,        \* scrape_data: driver (None or a session)
    browsers,      \* browser sessions started and not yet quit
    page,          \* the document the browser rendered in this cycle
    fault,         \* where an exception is raised during this cycle's extraction
    data,          \* main: data, the value scrape_data returned
    sent,          \* state-write calls issued in this cycle, in order
    cycle,         \* number of loop iterations started
    raised,        \* where this cycle's scrape_data raised (None: nowhere)
    stopCause,     \* why the loop ended
    fn,            \* extraction routine under call (pure-function specifications)
    arg,           \* its arguments
    ret            \* its return value

vars == <<pc, scan_interval, station_code, now, start_time, sleep_time, driver,
          browsers, page, fault, data, sent, cycle, raised, stopCause,
          fn, arg, ret>>

mainVars == <<pc, scan_interval, station_code, now, start_time, sleep_time, driver,
              browsers, page, fault, data, sent, cycle, raised, stopCause>>

callVars == <<fn, arg, ret>>

-----------------------------------------------------------------------------
(* Bounds *)

MaxTextLen == 4

MaxRows == 3

MaxInterval == 1

MaxDelay == 2

MaxCycles == 2

MaxTables == 3

-----------------------------------------------------------------------------
(* Texts and numbers *)

None == "None"

EmptyDict == [k \in {} |-> 0]

Digits == {"0", "1", "2", "3", "4", "5", "6", "7", "8", "9"}

DigitVal(c) ==
    CASE c = "0" -> 0 [] c = "1" -> 1 [] c = "2" -> 2 [] c = "3" -> 3
      [] c = "4" -> 4 [] c = "5" -> 5 [] c = "6" -> 6 [] c = "7" -> 7
      [] c = "8" -> 8 [] c = "9" -> 9

Whitespace == {" ", "\n"}

RECURSIVE Pow10(_)
Pow10(n) == IF n = 0 THEN 1 ELSE 10 * Pow10(n - 1)

RECURSIVE SeqsUpTo(_, _)
SeqsUpTo(S, n) ==
    IF n = 0 THEN {<<>>}
    ELSE LET shorter == SeqsUpTo(S, n - 1)
         IN  shorter \cup {Append(s, c) : s \in shorter, c \in S}

\* re.sub(r'[^\d.-]', '', text): the lexemes of text that the class keeps.
RECURSIVE KeepChars(_, _)
KeepChars(text, keep) ==
    IF text = <<>> THEN <<>>
    ELSE IF Head(text) \in keep
         THEN <<Head(text)>> \o KeepChars(Tail(text), keep)
         ELSE KeepChars(Tail(text), keep)

FirstOf(S) == CHOOSE i \in S : \A j \in S : i <= j

Count(s, c) == Cardinality({i \in 1..Len(s) : s[i] = c})

IndexOf(s, c) == IF \E i \in 1..Len(s) : s[i] = c
                 THEN CHOOSE i \in 1..Len(s) : s[i] = c /\ \A j \in 1..(i - 1) : s[j] # c
                 ELSE 0

\* The decimal value of a digit string (the empty string counts 0).
RECURSIVE DigitsValue(_)
DigitsValue(s) ==
    IF s = <<>> THEN 0
    ELSE 10 * DigitsValue(SubSeq(s, 1, Len(s) - 1)) + DigitVal(s[Len(s)])

\* A floating-point value m * 10^-e, kept in lowest terms so that equal
\* values are equal records.
RECURSIVE Float(_, _)
Float(m, e) ==
    IF e > 0 /\ m % 10 = 0 THEN Float(m \div 10, e - 1) ELSE [m |-> m, e |-> e]

Zero == Float(0, 0)

\* float(s) accepts, of the strings over digits, "." and "-": an optional
\* leading "-", then digits with at most one ".", at least one digit in all.
IsFloatLiteral(s) ==
    LET body == IF s # <<>> /\ Head(s) = "-" THEN Tail(s) ELSE s
    IN  /\ Count(body, "-") = 0
        /\ Count(body, ".") <= 1
        /\ \E i \in 1..Len(body) : body[i] \in Digits

\* float(s) for such a literal.
FloatOf(s) ==
    LET neg   == s # <<>> /\ Head(s) = "-"
        body  == IF neg THEN Tail(s) ELSE s
        dot   == IndexOf(body, ".")
        whole == IF dot = 0 THEN body ELSE SubSeq(body, 1, dot - 1)
        frac  == IF dot = 0 THEN <<>> ELSE SubSeq(body, dot + 1, Len(body))
        mag   == DigitsValue(whole \o frac)
    IN  Float(IF neg THEN 0 - mag ELSE mag, Len(frac))

\* float(s): the value, or the ValueError it raises.
PyFloat(s) ==
    IF IsFloatLiteral(s) THEN [exc |-> None, value |-> FloatOf(s)]
    ELSE [exc |-> "ValueError", value |-> Zero]

\* The routine with the character class missing the decimal point.
ExtractValueNoPoint(text) ==
    LET clean_text == KeepChars(text, Digits \cup {"-"})
        r == IF clean_text # <<>> THEN PyFloat(clean_text)
             ELSE [exc |-> None, value |-> Zero]
    IN  IF r.exc = "ValueError" THEN [exc |-> None, value |-> Zero] ELSE r

\* _extract_value as a call: the exception that leaves it (None when it
\* returns) and the value returned.
ExtractValueCall(text) ==
    LET clean_text == KeepChars(text, Digits \cup {".", "-"})
        r == IF clean_text # <<>> THEN PyFloat(clean_text)
             ELSE [exc |-> None, value |-> Zero]
    IN  IF r.exc = "ValueError" THEN [exc |-> None, value |-> Zero] ELSE r

_extract_value(text) == ExtractValueCall(text).value

\* re.sub(r'\s+', ' ', text): every run of whitespace becomes one space.
RECURSIVE CollapseSpaces(_)
CollapseSpaces(text) ==
    IF text = <<>> THEN <<>>
    ELSE IF Head(text) \in Whitespace
         THEN IF Len(text) > 1 /\ text[2] \in Whitespace
              THEN CollapseSpaces(Tail(text))
              ELSE <<" ">> \o CollapseSpaces(Tail(text))
         ELSE <<Head(text)>> \o CollapseSpaces(Tail(text))

RECURSIVE LStrip(_)
LStrip(text) ==
    IF text # <<>> /\ Head(text) \in Whitespace THEN LStrip(Tail(text)) ELSE text

RECURSIVE RStrip(_)
RStrip(text) ==
    IF text # <<>> /\ text[Len(text)] \in Whitespace
    THEN RStrip(SubSeq(text, 1, Len(text) - 1)) ELSE text

Strip(text) == RStrip(LStrip(text))

\* The six replace() calls all name the same source character (U+FFFD), so
\* the first turns every one into "í" and the other five find nothing.
Repair(c) == IF c = "\\uFFFD" THEN "í" ELSE c

_clean_text(text) ==
    IF text = <<>> THEN <<>>
    ELSE Strip(CollapseSpaces([i \in 1..Len(text) |-> Repair(text[i])]))

-----------------------------------------------------------------------------
(* Regular expressions over lexemes *)

\* str.lower() / re.IGNORECASE on the word lexemes the patterns name.
Lower(c) ==
    CASE c \in {"Temperatura", "TEMPERATURA"} -> "temperatura"
      [] c \in {"Umidade", "UMIDADE"} -> "umidade"
      [] c \in {"Vento", "VENTO"} -> "vento"
      [] c \in {"Pressão", "PRESSÃO"} -> "pressão"
      [] c \in {"Chuva", "CHUVA"} -> "chuva"
      [] c \in {"Por Período", "POR PERÍODO"} -> "por período"
      [] c \in {"Precipitação", "PRECIPITAÇÃO"} -> "precipitação"
      [] c \in {"Atual:", "ATUAL:"} -> "atual:"
      [] c \in {"Máxima:", "MÁXIMA:"} -> "máxima:"
      [] c \in {"Mínima:", "MÍNIMA:"} -> "mínima:"
      [] c \in {"Velocidade:", "VELOCIDADE:"} -> "velocidade:"
      [] c \in {"Rajada:", "RAJADA:"} -> "rajada:"
      [] c = "C" -> "c"
      [] c \in {"hPa", "HPA"} -> "hpa"
      [] c \in {"km/h", "KM/H"} -> "km/h"
      [] OTHER -> c

Fold(c, ignorecase) == IF ignorecase THEN Lower(c) ELSE c

\* The end of the longest run of lexemes of S that starts at i.
RECURSIVE RunEnd(_, _, _)
RunEnd(text, i, S) ==
    IF i <= Len(text) /\ text[i] \in S THEN RunEnd(text, i + 1, S) ELSE i

\* The pattern `unit` (one of the lexeme sequences of units) at position i.
UnitAt(text, i, units, ignorecase) ==
    \E u \in units :
        /\ i + Len(u) - 1 <= Len(text)
        /\ \A k \in 1..Len(u) : Fold(text[i + k - 1], ignorecase) = u[k]

\* label \s* ([\d.]+) \s* unit, matched with the label starting at i; a
\* label is the sequence of lexemes of its literal text.
LabelMatchAt(text, i, label, units, ignorecase) ==
    LET b == RunEnd(text, i + Len(label), Whitespace)
        c == RunEnd(text, b, Digits \cup {"."})
        d == RunEnd(text, c, Whitespace)
    IN  /\ i + Len(label) - 1 <= Len(text)
        /\ \A k \in 1..Len(label) : Fold(text[i + k - 1], ignorecase) = label[k]
        /\ c > b
        /\ UnitAt(text, d, units, ignorecase)

LabelMatches(text, label, units, ignorecase) ==
    {i \in 1..Len(text) : LabelMatchAt(text, i, label, units, ignorecase)}

\* group(1) of re.search's match: the number after the leftmost label.
LabelGroup(text, label, units, ignorecase) ==
    LET i == FirstOf(LabelMatches(text, label, units, ignorecase))
        b == RunEnd(text, i + Len(label), Whitespace)
    IN  SubSeq(text, b, RunEnd(text, b, Digits \cup {"."}) - 1)

\* self._extract_value(m.group(1)) if m else 0.0
LabelValue(text, label, units, ignorecase) ==
    IF LabelMatches(text, label, units, ignorecase) # {}
    THEN _extract_value(LabelGroup(text, label, units, ignorecase))
    ELSE Zero

\* Zeramento:\s*(\d{2}:\d{2}:\d{2})
IsClockAt(text, i) ==
    /\ i + 7 <= Len(text)
    /\ \A k \in {0, 1, 3, 4, 6, 7} : text[i + k] \in Digits
    /\ text[i + 2] = ":" /\ text[i + 5] = ":"

ResetMatches(text) ==
    {i \in 1..Len(text) :
        text[i] = "Zeramento:" /\ IsClockAt(text, RunEnd(text, i + 1, Whitespace))}

MidnightText == <<"0", "0", ":", "0", "0", ":", "0", "0">>

ResetTime(text) ==
    IF ResetMatches(text) # {}
    THEN LET b == RunEnd(text, FirstOf(ResetMatches(text)) + 1, Whitespace)
         IN  SubSeq(text, b, b + 7)
    ELSE MidnightText

-----------------------------------------------------------------------------
(* Measurement sections.  soup.strings lists the document's text nodes in  *)
(* document order: string is the node's text, parent the flattened text of *)
(* the element that holds it (find_parent().get_text()).                   *)

HasWord(text, word) == \E i \in 1..Len(text) : Lower(text[i]) = word

\* re.compile("Chuva.*Por Período", re.IGNORECASE).search(string)
HasRainHeading(text) ==
    \E i \in 1..Len(text), j \in 1..Len(text) :
        /\ i < j
        /\ Lower(text[i]) = "chuva" /\ Lower(text[j]) = "por período"
        /\ \A k \in (i + 1)..(j - 1) : text[k] # "\n"

\* soup.find(string=...): the indices of the text nodes that match.
FoundWord(soup, word) ==
    {i \in 1..Len(soup.strings) : HasWord(soup.strings[i].string, word)}

FoundRainHeading(soup) ==
    {i \in 1..Len(soup.strings) : HasRainHeading(soup.strings[i].string)}

DefaultRain == [current |-> Zero, previous |-> Zero, reset_time |-> MidnightText]

DefaultCurrentMaxMin == [current |-> Zero, max |-> Zero, min |-> Zero]

DefaultWind == [speed |-> Zero, gust |-> Zero]

RainSection(soup) ==
    LET first  == FoundRainHeading(soup)
        second == FoundWord(soup, "precipitação")
    IN  IF first # {} THEN {FirstOf(first)}
        ELSE IF second # {} THEN {FirstOf(second)} ELSE {}

_extract_rain_data(soup, raise) ==
    IF raise THEN DefaultRain
    ELSE IF RainSection(soup) = {} THEN EmptyDict
    ELSE LET rain_text == soup.strings[FirstOf(RainSection(soup))].parent
         IN  [current    |-> LabelValue(rain_text, <<"Per.", " ", "Atual:">>, {<<"mm">>}, FALSE),
              previous   |-> LabelValue(rain_text, <<"Per.", " ", "Anterior:">>, {<<"mm">>}, FALSE),
              reset_time |-> ResetTime(rain_text)]

\* The three sections that read Atual / Máxima / Mínima with one unit.
CurrentMaxMin(soup, keyword, units, raise) ==
    LET found == FoundWord(soup, keyword)
    IN  IF raise THEN DefaultCurrentMaxMin
        ELSE IF found = {} THEN EmptyDict
        ELSE LET text == soup.strings[FirstOf(found)].parent
             IN  [current |-> LabelValue(text, <<"atual:">>, units, TRUE),
                  max     |-> LabelValue(text, <<"máxima:">>, units, TRUE),
                  min     |-> LabelValue(text, <<"mínima:">>, units, TRUE)]

_extract_temperature_data(soup, raise) ==
    CurrentMaxMin(soup, "temperatura", {<<"°", "c">>, <<"c">>}, raise)

_extract_humidity_data(soup, raise) ==
    CurrentMaxMin(soup, "umidade", {<<"%">>}, raise)

_extract_pressure_data(soup, raise) ==
    CurrentMaxMin(soup, "pressão", {<<"hpa">>}, raise)

_extract_wind_data(soup, raise) ==
    LET found == FoundWord(soup, "vento")
    IN  IF raise THEN DefaultWind
        ELSE IF found = {} THEN EmptyDict
        ELSE LET wind_text == soup.strings[FirstOf(found)].parent
             IN  [speed |-> LabelValue(wind_text, <<"velocidade:">>, {<<"km/h">>}, TRUE),
                  gust  |-> LabelValue(wind_text, <<"rajada:">>, {<<"km/h">>}, TRUE)]

-----------------------------------------------------------------------------
(* History table.  soup.tables lists the table elements in document order: *)
(* th holds the texts of the table's th cells, tr its rows in order, each  *)
(* row the texts of its td cells.                                          *)

\* 'Data' in text / 'Chuva' in text, case-sensitive, on the header lexemes.
DateWords == {"Data", "Data/Hora"}

RainWords == {"Chuva", "Chuva (mm)"}

SomeWord(text, words) == \E i \in 1..Len(text) : text[i] \in words

IsHistoryTable(table) ==
    LET header_texts == [i \in 1..Len(table.th) |-> _clean_text(table.th[i])]
    IN  /\ Len(table.th) >= 7
        /\ \E i \in 1..Len(header_texts) : SomeWord(header_texts[i], DateWords)
        /\ \E i \in 1..Len(header_texts) : SomeWord(header_texts[i], RainWords)

HistoryEntry(cols) ==
    [date           |-> _clean_text(cols[1]),
     rain           |-> _extract_value(cols[2]),
     wind_speed     |-> _extract_value(cols[3]),
     wind_direction |-> _extract_value(cols[4]),
     temperature    |-> _extract_value(cols[5]),
     humidity       |-> _extract_value(cols[6]),
     pressure       |-> _extract_value(cols[7])]

\* The loop over rows with the test "more than 7 cells".
RECURSIVE HistoryRowsStrict(_, _, _)
HistoryRowsStrict(rows, k, raiseAt) ==
    IF k > Len(rows) \/ k = raiseAt THEN <<>>
    ELSE (IF Len(rows[k]) > 7 THEN <<HistoryEntry(rows[k])>> ELSE <<>>)
         \o HistoryRowsStrict(rows, k + 1, raiseAt)

\* for row in rows, from row k on: an exception raised while row raiseAt
\* is converted ends the loop, and the except clause keeps history_data
\* as it stands.
RECURSIVE HistoryRows(_, _, _)
HistoryRows(rows, k, raiseAt) ==
    IF k > Len(rows) \/ k = raiseAt THEN <<>>
    ELSE (IF Len(rows[k]) >= 7 THEN <<HistoryEntry(rows[k])>> ELSE <<>>)
         \o HistoryRows(rows, k + 1, raiseAt)

\* s[1:]
Rest(s) == IF s = <<>> THEN <<>> ELSE Tail(s)

\* raiseAt = 0: no exception; raiseAt = k > 0: one is raised at the k-th
\* row after the header row of the table chosen.
_extract_history_data(soup, raiseAt) ==
    LET chosen == {i \in 1..Len(soup.tables) : IsHistoryTable(soup.tables[i])}
    IN  IF chosen = {} THEN <<>>
        ELSE HistoryRows(Rest(soup.tables[FirstOf(chosen)].tr), 1, raiseAt)

-----------------------------------------------------------------------------
(* The main loop at rest: the state of the variables of main() under the   *)
(* specifications that call one extraction routine on its own.             *)

MainIdle ==
    /\ pc = "idle" /\ scan_interval = 0 /\ station_code = None
    /\ now = 0 /\ start_time = 0 /\ sleep_time = 0
    /\ driver = None /\ browsers = 0 /\ page = None /\ fault = None
    /\ data = EmptyDict /\ sent = <<>> /\ cycle = 0
    /\ raised = None /\ stopCause = None

Pending == [done |-> FALSE]

Returned(r) == [done |-> TRUE, exc |-> r.exc, value |-> r.value]

-----------------------------------------------------------------------------
(* _extract_value on every text of up to MaxTextLen characters *)

ValueAlphabet == {"1", "5", ".", "-", "$", " ", "m"}

InitValue ==
    /\ MainIdle
    /\ fn = "_extract_value"
    /\ arg \in SeqsUpTo(ValueAlphabet, MaxTextLen)
    /\ ret = Pending

CallExtractValue ==
    /\ fn = "_extract_value" /\ ~ret.done
    /\ ret' = Returned(ExtractValueCall(arg))
    /\ UNCHANGED <<mainVars, fn, arg>>

NextValue == CallExtractValue

SpecValue == InitValue /\ [][NextValue]_vars

(* Numbers written out in decimal, to state what a text's number is worth. *)

DigitChar(d) == CHOOSE c \in Digits : DigitVal(c) = d

RECURSIVE DecStr(_)
DecStr(n) == IF n < 10 THEN <<DigitChar(n)>>
             ELSE Append(DecStr(n \div 10), DigitChar(n % 10))

NumberPool ==
    [neg : BOOLEAN, whole : {1, 5, 15, 51}, frac : {<<>>, <<1>>, <<5>>, <<1, 5>>}]

RECURSIVE FracValue(_)
FracValue(f) == IF f = <<>> THEN 0
                ELSE 10 * FracValue(SubSeq(f, 1, Len(f) - 1)) + f[Len(f)]

NumberText(n) ==
    (IF n.neg THEN <<"-">> ELSE <<>>)
    \o DecStr(n.whole)
    \o (IF n.frac = <<>> THEN <<>>
        ELSE <<".">> \o [i \in 1..Len(n.frac) |-> DigitChar(n.frac[i])])

NumberValue(n) ==
    LET mag == n.whole * Pow10(Len(n.frac)) + FracValue(n.frac)
    IN  Float(IF n.neg THEN 0 - mag ELSE mag, Len(n.frac))

Stray(c) == c \notin Digits \cup {".", "-"}

\* text is the number n with only stray characters before and after it.
HoldsNumber(text, n) ==
    LET lit == NumberText(n)
    IN  \E i \in 0..Len(text) :
            /\ i + Len(lit) <= Len(text)
            /\ SubSeq(text, i + 1, i + Len(lit)) = lit
            /\ \A j \in 1..Len(text) :
                   (j <= i \/ j > i + Len(lit)) => Stray(text[j])

\* C8: _extract_value never raises; a text holding one number among stray
\* non-numeric characters yields that number's value, and a text with no
\* digit yields 0.0.
C8_ExtractValueCleans ==
    (fn = "_extract_value" /\ ret.done) =>
        /\ ret.exc = None
        /\ (\A i \in 1..Len(arg) : arg[i] \notin Digits) => ret.value = Zero
        /\ \A n \in NumberPool : HoldsNumber(arg, n) => ret.value = NumberValue(n)

C8_Witness ==
    /\ fn = "_extract_value" /\ ret.done
    /\ arg = <<"$", "1", ".", "5">>
    /\ ret.exc = None
    /\ ret.value = [m |-> 15, e |-> 1]

-----------------------------------------------------------------------------
(* Station-name resolution *)

KNOWN_STATIONS ==
    [c \in {"1000840", "1000839", "1000838", "1000837", "1000836", "1000835",
            "1000834", "1000833", "1000832", "1000831", "1000830"} |->
        CASE c = "1000840" -> <<"Ipiranga - Ribeirão dos Meninos">>
          [] c = "1000839" -> <<"Cidade Universitária">>
          [] c = "1000838" -> <<"Morumbi - USP">>
          [] c = "1000837" -> <<"Vila Maria">>
          [] c = "1000836" -> <<"Santana">>
          [] c = "1000835" -> <<"Sé - Centro">>
          [] c = "1000834" -> <<"Vila Prudente">>
          [] c = "1000833" -> <<"Itaim Paulista">>
          [] c = "1000832" -> <<"Jardim São Luís">>
          [] c = "1000831" -> <<"Capela do Socorro">>
          [] c = "1000830" -> <<"Parelheiros">>]

\* KNOWN_STATIONS.get(station_code, f"Estacao_{station_code}")
KnownOrPlaceholder(code) ==
    IF code \in DOMAIN KNOWN_STATIONS THEN KNOWN_STATIONS[code]
    ELSE <<"Estacao_", code>>

TitlePrefix == <<"Estacao Meteorologica", " ", "-", " ">>

\* re.search(r'Estacao Meteorologica - (.*?) -', text): the pairs <<i, j>>
\* where the prefix starts at i and " -" at j, with no newline between.
TitleMatches(text) ==
    {m \in (1..Len(text)) \X (1..Len(text)) :
        /\ m[1] + 3 <= Len(text)
        /\ SubSeq(text, m[1], m[1] + 3) = TitlePrefix
        /\ m[2] >= m[1] + 4 /\ m[2] + 1 <= Len(text)
        /\ text[m[2]] = " " /\ text[m[2] + 1] = "-"
        /\ \A k \in (m[1] + 4)..(m[2] - 1) : text[k] # "\n"}

\* The match re.search reports: leftmost start, then the shortest group.
TitleMatch(text) ==
    CHOOSE m \in TitleMatches(text) :
        \A o \in TitleMatches(text) :
            m[1] < o[1] \/ (m[1] = o[1] /\ m[2] <= o[2])

TitleGroup(text) ==
    LET m == TitleMatch(text) IN SubSeq(text, m[1] + 4, m[2] - 1)

\* Lexemes whose lower-case form contains 'estacao' or 'meteorologica'.
StationWords ==
    {"estacao", "Estacao", "ESTACAO", "meteorologica", "Meteorologica",
     "Estacao Meteorologica"}

IsStationHeader(text) == \E i \in 1..Len(text) : text[i] \in StationWords

StationHeaders(headers) == {i \in 1..Len(headers) : IsStationHeader(headers[i])}

\* title and title.text, then name_match: soup.title is <<>> when the
\* document has no title element and <<text>> when it has one.
HasTitleMatch(soup) ==
    /\ soup.title # <<>>
    /\ soup.title[1] # <<>>
    /\ TitleMatches(soup.title[1]) # {}

\* soup.headers: the texts of the h1/h2/h3 elements in document order.
\* raise: an exception is raised inside the try block.
_extract_station_name(soup, code, raise) ==
    IF raise THEN KnownOrPlaceholder(code)
    ELSE IF HasTitleMatch(soup)
    THEN Strip(TitleGroup(soup.title[1]))
    ELSE IF StationHeaders(soup.headers) # {}
    THEN Strip(soup.headers[FirstOf(StationHeaders(soup.headers))])
    ELSE KnownOrPlaceholder(code)

TitleTailAlphabet == {" ", "-", "a"}

TitlePool ==
    {<<>>, << <<>> >>, << <<"C", "G", "E">> >>}
    \cup {<<TitlePrefix \o t>> : t \in SeqsUpTo(TitleTailAlphabet, MaxTextLen)}

HeaderPool == {<<"Estacao", " ", "a">>, <<" ", "meteorologica", "\n">>, <<"a">>}

CodePool == {"1000840", "9999999"}

InitName ==
    /\ MainIdle
    /\ fn = "_extract_station_name"
    /\ arg \in [soup : [title : TitlePool, headers : SeqsUpTo(HeaderPool, 2)],
                station_code : CodePool, raise : BOOLEAN]
    /\ ret = Pending

CallExtractStationName ==
    /\ fn = "_extract_station_name" /\ ~ret.done
    /\ ret' = [done |-> TRUE, exc |-> None,
               value |-> _extract_station_name(arg.soup, arg.station_code, arg.raise)]
    /\ UNCHANGED <<mainVars, fn, arg>>

NextName == CallExtractStationName

SpecName == InitName /\ [][NextName]_vars

\* What each method of the resolution yields on its own (the empty text
\* when it finds nothing).
TitleMethod(soup) ==
    IF HasTitleMatch(soup)
    THEN Strip(TitleGroup(soup.title[1])) ELSE <<>>

HeadingMethod(soup) ==
    IF StationHeaders(soup.headers) # {}
    THEN Strip(soup.headers[FirstOf(StationHeaders(soup.headers))]) ELSE <<>>

LookupMethod(code) ==
    IF code \in DOMAIN KNOWN_STATIONS THEN KNOWN_STATIONS[code] ELSE <<>>

FirstNonEmpty(names) ==
    names[FirstOf({i \in 1..Len(names) : names[i] # <<>>})]

\* C5: the name returned is that of the first method, in the order title,
\* heading, lookup, placeholder, whose result is not empty; it is never
\* empty.
C5_FirstNonEmptyMethodWins ==
    (fn = "_extract_station_name" /\ ret.done /\ ~arg.raise) =>
        /\ ret.value # <<>>
        /\ ret.value = FirstNonEmpty(<<TitleMethod(arg.soup),
                                       HeadingMethod(arg.soup),
                                       LookupMethod(arg.station_code),
                                       <<"Estacao_", arg.station_code>> >>)

-----------------------------------------------------------------------------
(* _extract_history_data on one table: a header and up to MaxRows rows *)

HistoryHeader ==
    << <<"Data">>, <<"Chuva (mm)">>, <<"Vel.">>, <<"Dir.">>, <<"Temp.">>,
       <<"Umid.">>, <<"\n", "Pressão", " ">> >>

HeaderPool7 ==
    {HistoryHeader,
     SubSeq(HistoryHeader, 1, 6),
     [HistoryHeader EXCEPT ![2] = <<"Vento">>]}

RowA == << <<"01/01", " ", "\n", "10:00">>, <<"1", ".", "5">>, <<" ", "7">>,
           <<"9", "0">>, <<"2", "3", ".", "4">>, <<"8", "0", "%">>,
           <<"1", "0", "1", "3">> >>

RowB == << <<"02/01">>, <<"-">>, <<>>, <<"N", "E">>, <<"-", "2">>,
           <<"1", ".", "2", ".", "3">>,
           <<"9", "9", "9", ".", "5", " ", "h", "P", "a">> >>

RowC == << <<"03/01", " ">>, <<"0", ".", "0">>, <<"1", "2">>, <<"4", "5">>,
           <<"3", "0">>, <<"5", "5">>, <<"1", "0", "0", "0">>, <<"x">> >>

RowShort == SubSeq(RowA, 1, 6)

RowEmpty == <<>>

RowPool == {RowA, RowB, RowC, RowShort, RowEmpty}

\* The entry each row of seven or more cells stands for, written out.
ExpectedEntry(row) ==
    CASE row = RowA ->
           [date |-> <<"01/01", " ", "10:00">>, rain |-> [m |-> 15, e |-> 1],
            wind_speed |-> [m |-> 7, e |-> 0], wind_direction |-> [m |-> 90, e |-> 0],
            temperature |-> [m |-> 234, e |-> 1], humidity |-> [m |-> 80, e |-> 0],
            pressure |-> [m |-> 1013, e |-> 0]]
      [] row = RowB ->
           [date |-> <<"02/01">>, rain |-> Zero,
            wind_speed |-> Zero, wind_direction |-> Zero,
            temperature |-> [m |-> -2, e |-> 0], humidity |-> Zero,
            pressure |-> [m |-> 9995, e |-> 1]]
      [] row = RowC ->
           [date |-> <<"03/01">>, rain |-> Zero,
            wind_speed |-> [m |-> 12, e |-> 0], wind_direction |-> [m |-> 45, e |-> 0],
            temperature |-> [m |-> 30, e |-> 0], humidity |-> [m |-> 55, e |-> 0],
            pressure |-> [m |-> 1000, e |-> 0]]

InitHistory ==
    /\ MainIdle
    /\ fn = "_extract_history_data"
    /\ \E th \in HeaderPool7, rows \in SeqsUpTo(RowPool, MaxRows), k \in 0..MaxRows :
          arg = [soup |-> [tables |-> <<[th |-> th, tr |-> <<RowEmpty>> \o rows]>>],
                 raiseAt |-> k]
    /\ ret = Pending

CallExtractHistory ==
    /\ fn = "_extract_history_data" /\ ~ret.done
    /\ ret' = [done |-> TRUE, exc |-> None,
               value |-> _extract_history_data(arg.soup, arg.raiseAt)]
    /\ UNCHANGED <<mainVars, fn, arg>>

NextHistory == CallExtractHistory

SpecHistory == InitHistory /\ [][NextHistory]_vars

DataRows == Tail(arg.soup.tables[1].tr)

LongRows == SelectSeq(DataRows, LAMBDA r : Len(r) >= 7)

\* C6: under a qualifying header, history holds one entry per data row of
\* at least 7 cells, in row order, each built from that row's first seven
\* cells; shorter rows add nothing and shift nothing.
C6_OneEntryPerLongRow ==
    (/\ fn = "_extract_history_data" /\ ret.done
     /\ arg.raiseAt = 0
     /\ arg.soup.tables[1].th = HistoryHeader) =>
        /\ Len(ret.value) = Len(LongRows)
        /\ \A k \in 1..Len(LongRows) : ret.value[k] = ExpectedEntry(LongRows[k])

C6_Witness ==
    /\ fn = "_extract_history_data" /\ ret.done
    /\ arg.raiseAt = 0
    /\ arg.soup.tables[1].th = HistoryHeader
    /\ DataRows = <<RowShort, RowB, RowA>>
    /\ ret.value = <<ExpectedEntry(RowB), ExpectedEntry(RowA)>>

-----------------------------------------------------------------------------
(* The document tree under the history extraction.  An element has a tag,  *)
(* the text it holds before its children, and its children in order.       *)

RECURSIVE FindAllIn(_, _, _)
FindAllIn(children, i, tag) ==
    IF i > Len(children) THEN <<>>
    ELSE (IF children[i].tag = tag THEN <<children[i]>> ELSE <<>>)
         \o FindAllIn(children[i].children, 1, tag)
         \o FindAllIn(children, i + 1, tag)

\* element.find_all(tag): the descendants with the tag, in document order.
find_all(element, tag) == FindAllIn(element.children, 1, tag)

RECURSIVE GetTextIn(_, _)
GetTextIn(children, i) ==
    IF i > Len(children) THEN <<>>
    ELSE children[i].text \o GetTextIn(children[i].children, 1)
         \o GetTextIn(children, i + 1)

\* element.get_text(): the text of the element and of its descendants.
get_text(element) == element.text \o GetTextIn(element.children, 1)

\* What the extraction reads of a table element: the texts of
\* table.find_all('th'), and for each row of table.find_all('tr') the texts
\* of row.find_all('td').
TableView(table) ==
    LET headers == find_all(table, "th")
        rows    == find_all(table, "tr")
        cols(r) == find_all(rows[r], "td")
    IN  [th |-> [i \in 1..Len(headers) |-> get_text(headers[i])],
         tr |-> [r \in 1..Len(rows) |->
                    [j \in 1..Len(cols(r)) |-> get_text(cols(r)[j])]]]

\* soup.find_all('table'), each table as the extraction reads it.
SoupTables(body) ==
    LET tables == find_all(body, "table")
    IN  [i \in 1..Len(tables) |-> TableView(tables[i])]

-----------------------------------------------------------------------------
(* _extract_history_data on documents of up to MaxTables tables *)

El(tag, text, children) == [tag |-> tag, text |-> text, children |-> children]

\* A tr of cells with the given tag and texts.
Row(tag, texts) ==
    El("tr", <<>>, [i \in 1..Len(texts) |-> El(tag, texts[i], <<>>)])

\* A table of a header row and data rows.
Table(header, rows) ==
    El("table", <<>>,
       <<Row("th", header)>> \o [i \in 1..Len(rows) |-> Row("td", rows[i])])

TableHistoryA == Table(HistoryHeader, <<RowA, RowShort, RowB>>)

TableHistoryC == Table(HistoryHeader, <<RowC>>)

TableSix == Table(SubSeq(HistoryHeader, 1, 6), <<RowA>>)

TableNoRain == Table([HistoryHeader EXCEPT ![2] = <<"Vento">>], <<RowB>>)

\* A table laying out the page: a caption row, then a row whose one cell
\* holds the table `inner`.
TableLayout(inner) ==
    El("table", <<>>,
       <<Row("td", << <<"C", "G", "E">> >>),
         El("tr", <<>>, <<El("td", <<>>, <<inner>>)>>)>>)

\* A table whose header cells stand in two rows.
TableSplitHeader ==
    El("table", <<>>,
       <<Row("th", SubSeq(HistoryHeader, 1, 4)),
         Row("th", SubSeq(HistoryHeader, 5, 7)),
         Row("td", RowA)>>)

TablePool ==
    {TableHistoryA, TableHistoryC, TableSix, TableNoRain,
     TableLayout(TableHistoryC), TableLayout(TableSix), TableSplitHeader}

InitTables ==
    /\ MainIdle
    /\ fn = "_extract_history_data(document)"
    /\ \E tables \in SeqsUpTo(TablePool, MaxTables) :
          arg = [body |-> El("body", <<>>, tables)]
    /\ ret = Pending

CallExtractHistoryOfDocument ==
    /\ fn = "_extract_history_data(document)" /\ ~ret.done
    /\ ret' = [done |-> TRUE, exc |-> None,
               value |-> _extract_history_data([tables |-> SoupTables(arg.body)], 0)]
    /\ UNCHANGED <<mainVars, fn, arg>>

NextTables == CallExtractHistoryOfDocument

SpecTables == InitTables /\ [][NextTables]_vars

\* The children of an element that carry a tag.
Own(element, tag) == SelectSeq(element.children, LAMBDA c : c.tag = tag)

Texts(cells) == [i \in 1..Len(cells) |-> get_text(cells[i])]

\* The table's header row has at least 7 columns, one labelled with the
\* date and one with the rain.
HeaderRowQualifies(table) ==
    /\ Own(table, "tr") # <<>>
    /\ LET header == Texts(Own(Own(table, "tr")[1], "th"))
       IN  /\ Len(header) >= 7
           /\ \E i \in 1..Len(header) : SomeWord(_clean_text(header[i]), DateWords)
           /\ \E i \in 1..Len(header) : SomeWord(_clean_text(header[i]), RainWords)

\* The entries of the table's own rows after the header row.
OwnEntries(table) ==
    LET rows == Rest(Own(table, "tr"))
        long == SelectSeq(rows, LAMBDA r : Len(Own(r, "td")) >= 7)
    IN  [k \in 1..Len(long) |-> ExpectedEntry(Texts(Own(long[k], "td")))]

\* C13: the history is the entries of one table, the first in document
\* order whose header row qualifies; the tables before it and after it add
\* no entry, and with no such table the history is empty.
C13_FirstQualifyingTableOnly ==
    (fn = "_extract_history_data(document)" /\ ret.done) =>
        LET tables == find_all(arg.body, "table")
            chosen == {i \in 1..Len(tables) : HeaderRowQualifies(tables[i])}
        IN  ret.value = IF chosen = {} THEN <<>>
                        ELSE OwnEntries(tables[FirstOf(chosen)])

-----------------------------------------------------------------------------
(* The reading scrape_data builds from one rendered document *)

Sections ==
    {"station_name", "rain", "temperature", "humidity", "wind", "pressure", "history"}

NoFault == [section |-> None, row |-> 0]

\* Where an exception is raised during extraction: in one section's
\* routine, and for the history at which row of the table.
Faults ==
    {NoFault}
    \cup {[section |-> x, row |-> 0] : x \in Sections \ {"history"}}
    \cup {[section |-> "history", row |-> k] : k \in 1..MaxRows}

ExtractReading(soup, code, timestamp, flt) ==
    [station_code |-> code,
     station_name |-> _extract_station_name(soup, code, flt.section = "station_name"),
     timestamp    |-> timestamp,
     rain         |-> _extract_rain_data(soup, flt.section = "rain"),
     temperature  |-> _extract_temperature_data(soup, flt.section = "temperature"),
     humidity     |-> _extract_humidity_data(soup, flt.section = "humidity"),
     wind         |-> _extract_wind_data(soup, flt.section = "wind"),
     pressure     |-> _extract_pressure_data(soup, flt.section = "pressure"),
     history      |-> _extract_history_data(soup,
                          IF flt.section = "history" THEN flt.row ELSE 0)]

Reading3(label1, n1, label2, n2, label3, n3, unit) ==
    <<"\n", label1, " ">> \o n1 \o unit \o <<" ", label2>> \o n2 \o <<" ">> \o unit
    \o <<"\n", label3, " ", " ">> \o n3 \o unit

TemperatureText ==
    <<"Temperatura">>
    \o Reading3("Atual:", <<"2", "3", ".", "4">>, "Máxima:", <<"3", "0", ".", "1">>,
                "Mínima:", <<"1", "8", ".", "0">>, <<"°", "C">>)

HumidityText ==
    <<"UMIDADE">>
    \o Reading3("ATUAL:", <<"8", "0">>, "MÁXIMA:", <<"9", "5", ".", "5">>,
                "MÍNIMA:", <<"4", "0">>, <<"%">>)

PressureText ==
    <<"Pressão">>
    \o Reading3("Atual:", <<"1", "0", "1", "3">>, "Máxima:", <<"1", "0", "2", "0">>,
                "Mínima:", <<"1", ".", "2", ".", "3">>, <<"hPa">>)

WindText ==
    <<"Vento", " ", "Velocidade:", " ", "1", "2", ".", "3", " ", "km/h", " ",
      "Rajada:", "3", "0", "km/h">>

RainText ==
    <<"Chuva", " ", "-", " ", "Por Período", "\n",
      "Per.", " ", "Atual:", " ", "1", ".", "5", " ", "mm", " ",
      "Per.", " ", "Anterior:", "0", ".", "0", "mm", " ",
      "Zeramento:", " ", "0", "7", ":", "0", "0", ":", "0", "0">>

Node(string, parent) == [string |-> string, parent |-> parent]

HistoryTable == [th |-> HistoryHeader, tr |-> <<RowEmpty, RowA, RowShort, RowB>>]

\* A station page with every section, the heading of each in the same
\* element as its values.
PageFull ==
    [title   |-> <<TitlePrefix \o <<"a", " ", "-", " ", "C", "G", "E">> >>,
     headers |-> <<>>,
     strings |-> <<Node(TemperatureText, TemperatureText),
                   Node(HumidityText, HumidityText),
                   Node(RainText, RainText),
                   Node(WindText, WindText),
                   Node(PressureText, PressureText)>>,
     tables  |-> <<HistoryTable>>]

\* A page whose body holds nothing.
PageBlank == [title |-> <<>>, headers |-> <<>>, strings |-> <<>>, tables |-> <<>>]

\* A page naming the rain section "Precipitação", with the temperature
\* heading in an element of its own and a table that is not the history.
PagePartial ==
    [title   |-> << <<"C", "G", "E">> >>,
     headers |-> << <<"a">>, <<" ", "Estacao", " ", "a", "\n">> >>,
     strings |-> <<Node(<<"Temperatura">>, <<"Temperatura">>),
                   Node(<<"Atual:", "2", "3", "C">>, <<"Atual:", "2", "3", "C">>),
                   Node(<<"Precipitação">>,
                        <<"Precipitação", " ", "Per.", " ", "Atual:", "2", "mm">>)>>,
     tables  |-> <<[th |-> SubSeq(HistoryHeader, 1, 6), tr |-> <<RowEmpty, RowA>>],
                   [th |-> HistoryHeader, tr |-> <<RowEmpty, RowC, RowA>>]>>]

\* A page of a station without a name: the title's name is blank.
PageNameless ==
    [title   |-> <<TitlePrefix \o <<" ", "-", " ", "C", "G", "E">> >>,
     headers |-> <<>>,
     strings |-> <<Node(WindText, WindText), Node(PressureText, PressureText)>>,
     tables  |-> <<>>]

PagePool == {PageFull, PageBlank, PagePartial, PageNameless}

InitReading ==
    /\ MainIdle
    /\ fn = "scrape_data"
    /\ arg \in [soup : PagePool, station_code : CodePool, fault : Faults]
    /\ ret = Pending

CallExtractReading ==
    /\ fn = "scrape_data" /\ ~ret.done
    /\ ret' = [done |-> TRUE, exc |-> None,
               value |-> ExtractReading(arg.soup, arg.station_code, 0, arg.fault)]
    /\ UNCHANGED <<mainVars, fn, arg>>

NextReading == CallExtractReading

SpecReading == InitReading /\ [][NextReading]_vars

SectionDefault(x, code) ==
    CASE x = "rain" -> DefaultRain
      [] x = "wind" -> DefaultWind
      [] x \in {"temperature", "humidity", "pressure"} -> DefaultCurrentMaxMin
      [] x = "history" -> <<>>
      [] x = "station_name" -> KnownOrPlaceholder(code)

\* No text node of the document holds the section's keyword.
KeywordAbsent(soup, x) ==
    \A i \in 1..Len(soup.strings) :
        LET t == soup.strings[i].string
        IN  CASE x = "rain" -> ~HasRainHeading(t) /\ ~HasWord(t, "precipitação")
              [] x = "temperature" -> ~HasWord(t, "temperatura")
              [] x = "humidity" -> ~HasWord(t, "umidade")
              [] x = "wind" -> ~HasWord(t, "vento")
              [] x = "pressure" -> ~HasWord(t, "pressão")

HasAllDefaults(rec, default) ==
    \A f \in DOMAIN default : f \in DOMAIN rec /\ rec[f] = default[f]

\* C4: a measurement section whose keyword the document lacks comes back
\* with every field present at its default, and no field of a reading's
\* section is ever absent.
C4_AbsentSectionAllDefaults ==
    (fn = "scrape_data" /\ ret.done) =>
        \A x \in {"rain", "temperature", "humidity", "wind", "pressure"} :
            /\ DOMAIN ret.value[x] = DOMAIN SectionDefault(x, arg.station_code)
            /\ KeywordAbsent(arg.soup, x) =>
                   HasAllDefaults(ret.value[x], SectionDefault(x, arg.station_code))

\* The exception of arg.fault is raised: the history one needs the table
\* chosen to have the row.
FaultRaised ==
    /\ arg.fault.section # None
    /\ arg.fault.section = "history" =>
           \E i \in 1..Len(arg.soup.tables) :
               /\ IsHistoryTable(arg.soup.tables[i])
               /\ \A j \in 1..(i - 1) : ~IsHistoryTable(arg.soup.tables[j])
               /\ arg.fault.row <= Len(Rest(arg.soup.tables[i].tr))

\* C9: an exception raised inside one section's extraction leaves that
\* section at its all-default value and every other section as it is
\* extracted without the exception.
C9_FaultRevertsOneSection ==
    (fn = "scrape_data" /\ ret.done /\ FaultRaised) =>
        LET clean == ExtractReading(arg.soup, arg.station_code, 0, NoFault)
        IN  \A x \in Sections :
                IF x = arg.fault.section
                THEN IF x \in {"history", "station_name"}
                     THEN ret.value[x] = SectionDefault(x, arg.station_code)
                     ELSE /\ DOMAIN ret.value[x] = DOMAIN SectionDefault(x, arg.station_code)
                          /\ HasAllDefaults(ret.value[x], SectionDefault(x, arg.station_code))
                ELSE /\ DOMAIN ret.value[x] = DOMAIN clean[x]
                     /\ \A f \in DOMAIN clean[x] : ret.value[x][f] = clean[x][f]

-----------------------------------------------------------------------------
(* One measurement section read from a document whose section element      *)
(* holds the heading and, after it, each label with its number and unit.   *)

SectionNames == {"rain", "temperature", "humidity", "wind", "pressure"}

\* How the section is written: with a space around each number, with none,
\* or with the words the case-insensitive patterns name in capitals.
Layouts == {"spaced", "tight", "upper"}

ReadingNumbers ==
    {[neg |-> FALSE, whole |-> 23, frac |-> <<4>>],
     [neg |-> FALSE, whole |-> 30, frac |-> <<1>>],
     [neg |-> FALSE, whole |-> 18, frac |-> <<0>>],
     [neg |-> FALSE, whole |-> 1013, frac |-> <<>>],
     [neg |-> FALSE, whole |-> 0, frac |-> <<>>],
     [neg |-> TRUE, whole |-> 2, frac |-> <<5>>]}

ResetText == <<"0", "7", ":", "3", "0", ":", "0", "0">>

Labelled(label, n, unit, layout) ==
    LET gap == IF layout = "tight" THEN <<>> ELSE <<" ">>
    IN  <<" ", label>> \o gap \o NumberText(n) \o gap \o unit

SectionText(x, a, b, c, layout) ==
    LET up == layout = "upper"
        three(heading, unit) ==
            <<heading>>
            \o Labelled(IF up THEN "ATUAL:" ELSE "Atual:", a, unit, layout)
            \o Labelled(IF up THEN "MÁXIMA:" ELSE "Máxima:", b, unit, layout)
            \o Labelled(IF up THEN "MÍNIMA:" ELSE "Mínima:", c, unit, layout)
    IN  CASE x = "temperature" ->
               three(IF up THEN "TEMPERATURA" ELSE "Temperatura",
                     IF layout = "tight" THEN <<"C">> ELSE <<"°", "C">>)
          [] x = "humidity" ->
               three(IF up THEN "UMIDADE" ELSE "Umidade", <<"%">>)
          [] x = "pressure" ->
               three(IF up THEN "PRESSÃO" ELSE "Pressão",
                     IF up THEN <<"HPA">> ELSE <<"hPa">>)
          [] x = "wind" ->
               <<IF up THEN "VENTO" ELSE "Vento">>
               \o Labelled(IF up THEN "VELOCIDADE:" ELSE "Velocidade:", a,
                           IF up THEN <<"KM/H">> ELSE <<"km/h">>, layout)
               \o Labelled(IF up THEN "RAJADA:" ELSE "Rajada:", b,
                           IF up THEN <<"KM/H">> ELSE <<"km/h">>, layout)
          [] x = "rain" ->
               (IF up THEN <<"CHUVA", " ", "-", " ", "POR PERÍODO">>
                ELSE IF layout = "tight" THEN <<"Precipitação">>
                ELSE <<"Chuva", " ", "-", " ", "Por Período">>)
               \o <<"\n", "Per.">> \o Labelled("Atual:", a, <<"mm">>, layout)
               \o <<"\n", "Per.">> \o Labelled("Anterior:", b, <<"mm">>, layout)
               \o <<"\n", "Zeramento:", " ">> \o ResetText

\* The document: the section in one element, after an element without it.
SectionPage(x, a, b, c, layout) ==
    [title   |-> <<>>,
     headers |-> <<>>,
     strings |-> <<Node(<<"C", "G", "E">>, <<"C", "G", "E">>),
                   Node(SectionText(x, a, b, c, layout),
                        SectionText(x, a, b, c, layout))>>,
     tables  |-> <<>>]

\* The section's routine on the document.
ExtractSection(x, soup) ==
    CASE x = "rain" -> _extract_rain_data(soup, FALSE)
      [] x = "temperature" -> _extract_temperature_data(soup, FALSE)
      [] x = "humidity" -> _extract_humidity_data(soup, FALSE)
      [] x = "wind" -> _extract_wind_data(soup, FALSE)
      [] x = "pressure" -> _extract_pressure_data(soup, FALSE)

InitSection ==
    /\ MainIdle
    /\ fn = "_extract_section"
    /\ arg \in [section : SectionNames, a : ReadingNumbers, b : ReadingNumbers,
                c : ReadingNumbers, layout : Layouts]
    /\ ret = Pending

CallExtractSection ==
    /\ fn = "_extract_section" /\ ~ret.done
    /\ ret' = [done |-> TRUE, exc |-> None,
               value |-> ExtractSection(arg.section,
                             SectionPage(arg.section, arg.a, arg.b, arg.c, arg.layout))]
    /\ UNCHANGED <<mainVars, fn, arg>>

NextSection == CallExtractSection

SpecSection == InitSection /\ [][NextSection]_vars

\* The record the labelled numbers stand for.
LabelledRecord(x, a, b, c) ==
    CASE x = "rain" -> [current |-> NumberValue(a), previous |-> NumberValue(b),
                        reset_time |-> ResetText]
      [] x = "wind" -> [speed |-> NumberValue(a), gust |-> NumberValue(b)]
      [] OTHER -> [current |-> NumberValue(a), max |-> NumberValue(b),
                   min |-> NumberValue(c)]

\* C12: a section written as its keyword followed by "Label: <number><unit>"
\* pairs is extracted as the record of those numbers, each field the number
\* that follows its label.
C12_LabelledNumbersCaptured ==
    (fn = "_extract_section" /\ ret.done) =>
        LET want == LabelledRecord(arg.section, arg.a, arg.b, arg.c)
        IN  /\ DOMAIN ret.value = DOMAIN want
            /\ \A f \in DOMAIN want : ret.value[f] = want[f]

-----------------------------------------------------------------------------
(* main(): the reading cycle *)

Metrics == <<"temperature", "humidity", "rain", "wind_speed", "pressure", "complete">>

\* d.get(key, default)
Get(d, key, default) == IF key \in DOMAIN d THEN d[key] ELSE default

\* if data:
AlwaysTruthy(d) == TRUE

Truthy(d) == DOMAIN d # {}

EntityId(station_slug, metric) == <<"sensor.cgesp_", station_slug, "_", metric>>

\* The i-th send_sensor_data call of a cycle: entity id, state, attributes.
ChannelCall(d, i) ==
    LET common == [station_name |-> d.station_name, station_code |-> d.station_code,
                   timestamp |-> d.timestamp]
        maxmin(x) == [max_today |-> Get(d[x], "max", Zero),
                      min_today |-> Get(d[x], "min", Zero)]
    IN  CASE i = 1 -> [entity_id  |-> EntityId(d.station_code, "temperature"),
                       state      |-> Get(d.temperature, "current", Zero),
                       unit       |-> "°C",
                       attributes |-> <<common, maxmin("temperature")>>]
          [] i = 2 -> [entity_id  |-> EntityId(d.station_code, "humidity"),
                       state      |-> Get(d.humidity, "current", Zero),
                       unit       |-> "%",
                       attributes |-> <<common, maxmin("humidity")>>]
          [] i = 3 -> [entity_id  |-> EntityId(d.station_code, "rain"),
                       state      |-> Get(d.rain, "current", Zero),
                       unit       |-> "mm",
                       attributes |-> <<common,
                           [previous_period |-> Get(d.rain, "previous", Zero),
                            reset_time |-> Get(d.rain, "reset_time", MidnightText)]>>]
          [] i = 4 -> [entity_id  |-> EntityId(d.station_code, "wind_speed"),
                       state      |-> Get(d.wind, "speed", Zero),
                       unit       |-> "km/h",
                       attributes |-> <<common,
                           [gust_speed |-> Get(d.wind, "gust", Zero)]>>]
          [] i = 5 -> [entity_id  |-> EntityId(d.station_code, "pressure"),
                       state      |-> Get(d.pressure, "current", Zero),
                       unit       |-> "hPa",
                       attributes |-> <<common, maxmin("pressure")>>]
          [] i = 6 -> [entity_id  |-> EntityId(d.station_code, "complete"),
                       state      |-> "Online",
                       unit       |-> None,
                       attributes |-> <<common,
                           [rain |-> d.rain, temperature |-> d.temperature,
                            humidity |-> d.humidity, wind |-> d.wind,
                            pressure |-> d.pressure, history |-> d.history]>>]

\* What requests.post and raise_for_status do with a call.
PostOutcomes == {"ok", "http_error", "connection_error"}

\* send_sensor_data without its try/except.
SendNoCatch(outcome) ==
    IF outcome = "ok" THEN [exc |-> None, value |-> TRUE]
    ELSE [exc |-> outcome, value |-> FALSE]

\* send_sensor_data: the exception that leaves it and the value returned.
send_sensor_data(outcome) ==
    [exc |-> None, value |-> (outcome = "ok")]

\* The call to issue being the one before again whenever that one failed.
NextCallAgainOnFailure(issued) ==
    IF issued # <<>> /\ ~issued[Len(issued)].returned
    THEN Len(issued) ELSE Len(issued) + 1

\* The six calls are statements one after another, none in a loop: the call
\* to issue is the one after those issued, whatever they returned.
NextCall(issued) == Len(issued) + 1

\* scrape_data's handler with `except TimeoutException` for `except Exception`.
CatchesTimeoutOnly(point) == point = "wait"

\* except Exception: every exception raised in scrape_data's try block.
ScrapeCatches(point) == TRUE

\* The finally clause quitting only when nothing was raised.
QuitsOnSuccessOnly(drv, exc) == IF drv # None /\ exc = None THEN 1 ELSE 0

\* finally: if driver: driver.quit() -- the number of sessions it ends.
Quits(drv, exc) == IF drv # None THEN 1 ELSE 0

\* interval - elapsed without the floor.
SleepTimeNoFloor(interval, elapsed) == interval - elapsed

\* max(0, args.scan_interval - elapsed_time)
SleepTime(interval, elapsed) ==
    IF interval - elapsed > 0 THEN interval - elapsed ELSE 0

MainPages == {PageFull, PagePartial}

MainFaults == {NoFault, [section |-> "temperature", row |-> 0],
               [section |-> "history", row |-> 2]}

ScrapePcs == {"setup", "get", "wait", "extract", "except", "finally"}

Init ==
    /\ pc = "loop"
    /\ scan_interval \in 0..MaxInterval
    /\ station_code \in CodePool
    /\ now = 0 /\ start_time = 0 /\ sleep_time = 0
    /\ driver = None /\ browsers = 0
    /\ page = PageBlank /\ fault = NoFault
    /\ data = EmptyDict /\ sent = <<>> /\ cycle = 0
    /\ raised = None /\ stopCause = None
    /\ fn = None /\ arg = <<>> /\ ret = Pending

\* while True: start_time = time.time().  The values of the cycle before
\* are dead here and are cleared.
LoopTop ==
    /\ pc = "loop" /\ cycle < MaxCycles
    /\ cycle' = cycle + 1
    /\ start_time' = now
    /\ driver' = None /\ page' = PageBlank /\ fault' = NoFault
    /\ data' = EmptyDict /\ sent' = <<>> /\ raised' = None
    /\ pc' = "setup"
    /\ UNCHANGED <<scan_interval, station_code, now, sleep_time, browsers, stopCause,
                   callVars>>

\* An exception raised at `point` of scrape_data's try block: to the
\* except clause when it is caught, else through finally to main's handler.
Raise(point) ==
    /\ raised' = point
    /\ IF ScrapeCatches(point)
       THEN /\ pc' = "except"
            /\ UNCHANGED <<browsers, stopCause, driver>>
       ELSE /\ pc' = "stopped"
            /\ stopCause' = "error"
            /\ browsers' = browsers - Quits(driver, point)
            /\ driver' = None

SetupDriver ==
    /\ pc = "setup"
    /\ driver' = "session" /\ browsers' = browsers + 1
    /\ pc' = "get"
    /\ UNCHANGED <<scan_interval, station_code, now, start_time, sleep_time, page,
                   fault, data, sent, cycle, raised, stopCause, callVars>>

SetupDriverRaises ==
    /\ pc = "setup"
    /\ Raise("setup")
    /\ UNCHANGED <<scan_interval, station_code, now, start_time, sleep_time, page,
                   fault, data, sent, cycle, callVars>>

DriverGet ==
    /\ pc = "get"
    /\ \E d \in 0..MaxDelay, p \in MainPages :
          /\ now' = now + d
          /\ page' = p
    /\ pc' = "wait"
    /\ UNCHANGED <<scan_interval, station_code, start_time, sleep_time, driver,
                   browsers, fault, data, sent, cycle, raised, stopCause, callVars>>

DriverGetRaises ==
    /\ pc = "get"
    /\ \E d \in 0..MaxDelay : now' = now + d
    /\ Raise("get")
    /\ UNCHANGED <<scan_interval, station_code, start_time, sleep_time, page,
                   fault, data, sent, cycle, callVars>>

WaitBody ==
    /\ pc = "wait"
    /\ pc' = "extract"
    /\ UNCHANGED <<scan_interval, station_code, now, start_time, sleep_time, driver,
                   browsers, page, fault, data, sent, cycle, raised, stopCause,
                   callVars>>

WaitBodyTimeout ==
    /\ pc = "wait"
    /\ Raise("wait")
    /\ UNCHANGED <<scan_interval, station_code, now, start_time, sleep_time, page,
                   fault, data, sent, cycle, callVars>>

\* BeautifulSoup(driver.page_source, ...) raising, the browser being gone.
PageSourceRaises ==
    /\ pc = "extract"
    /\ Raise("page_source")
    /\ UNCHANGED <<scan_interval, station_code, now, start_time, sleep_time, page,
                   fault, data, sent, cycle, callVars>>

\* Lines 111-130: the reading, with an exception raised in at most one
\* section's routine; `data` carries the value on its way to main.
Extract ==
    /\ pc = "extract"
    /\ \E f \in MainFaults :
          /\ fault' = f
          /\ data' = ExtractReading(page, station_code, now, f)
    /\ pc' = "finally"
    /\ UNCHANGED <<scan_interval, station_code, now, start_time, sleep_time, driver,
                   browsers, page, sent, cycle, raised, stopCause, callVars>>

\* except Exception: return {}
Except ==
    /\ pc = "except"
    /\ data' = EmptyDict
    /\ pc' = "finally"
    /\ UNCHANGED <<scan_interval, station_code, now, start_time, sleep_time, driver,
                   browsers, page, fault, sent, cycle, raised, stopCause, callVars>>

\* finally: if driver: driver.quit(); then scrape_data returns to main.
Finally ==
    /\ pc = "finally"
    /\ browsers' = browsers - Quits(driver, raised)
    /\ driver' = None
    /\ pc' = "check"
    /\ UNCHANGED <<scan_interval, station_code, now, start_time, sleep_time, page,
                   fault, data, sent, cycle, raised, stopCause, callVars>>

\* if data: ... else: logger.error("Failed to scrape data")
Check ==
    /\ pc = "check"
    /\ pc' = IF Truthy(data) THEN "publish" ELSE "compute"
    /\ UNCHANGED <<scan_interval, station_code, now, start_time, sleep_time, driver,
                   browsers, page, fault, data, sent, cycle, raised, stopCause,
                   callVars>>

\* The next of the six send_sensor_data calls.
Send ==
    /\ pc = "publish"
    /\ \E outcome \in PostOutcomes :
          LET call == ChannelCall(data, NextCall(sent))
              r    == send_sensor_data(outcome)
          IN  /\ sent' = Append(sent, [entity_id |-> call.entity_id,
                                       state |-> call.state,
                                       returned |-> r.value])
              /\ IF r.exc # None
                 THEN pc' = "stopped" /\ stopCause' = "error"
                 ELSE /\ pc' = IF Len(sent) + 1 < Len(Metrics) THEN "publish"
                               ELSE "compute"
                      /\ UNCHANGED stopCause
    /\ UNCHANGED <<scan_interval, station_code, now, start_time, sleep_time, driver,
                   browsers, page, fault, data, cycle, raised, callVars>>

\* elapsed_time = time.time() - start_time; sleep_time = max(0, ...)
ComputeSleep ==
    /\ pc = "compute"
    /\ sleep_time' = SleepTime(scan_interval, now - start_time)
    /\ pc' = "sleep"
    /\ UNCHANGED <<scan_interval, station_code, now, start_time, driver, browsers,
                   page, fault, data, sent, cycle, raised, stopCause, callVars>>

\* await asyncio.sleep(sleep_time)
Sleep ==
    /\ pc = "sleep"
    /\ now' = now + sleep_time
    /\ pc' = "loop"
    /\ UNCHANGED <<scan_interval, station_code, start_time, sleep_time, driver,
                   browsers, page, fault, data, sent, cycle, raised, stopCause,
                   callVars>>

\* An interrupt of the process: inside scrape_data its finally clause runs
\* on the way out; main logs "Shutting down...".
Interrupt ==
    /\ pc \notin {"stopped", "idle"}
    /\ browsers' = IF pc \in ScrapePcs THEN browsers - Quits(driver, "interrupt")
                   ELSE browsers
    /\ driver' = None
    /\ pc' = "stopped" /\ stopCause' = "interrupt"
    /\ UNCHANGED <<scan_interval, station_code, now, start_time, sleep_time, page,
                   fault, data, sent, cycle, raised, callVars>>

\* except Exception as e: logger.error(f"Unexpected error: {e}") -- an
\* exception raised by the loop body's own statements.
UnexpectedError ==
    /\ pc \in {"loop", "check", "publish", "compute", "sleep"}
    /\ pc' = "stopped" /\ stopCause' = "error"
    /\ UNCHANGED <<scan_interval, station_code, now, start_time, sleep_time, driver,
                   browsers, page, fault, data, sent, cycle, raised, callVars>>

Body ==
    \/ LoopTop \/ SetupDriver \/ SetupDriverRaises \/ DriverGet \/ DriverGetRaises
    \/ WaitBody \/ WaitBodyTimeout \/ PageSourceRaises \/ Extract \/ Except
    \/ Finally \/ Check \/ Send \/ ComputeSleep \/ Sleep

Next == Body \/ Interrupt \/ UnexpectedError

Spec == Init /\ [][Next]_vars

-----------------------------------------------------------------------------
(* Properties of the reading cycle *)

AfterScrape == {"check", "publish", "compute", "sleep", "loop"}

C1_NoPublish ==
    raised # None =>
        /\ sent = <<>>
        /\ pc # "publish"
        /\ pc \in AfterScrape \cup {"finally"} => ~Truthy(data)

C1_ThenWait ==
    (pc = "check" /\ raised # None /\ pc' # "stopped") => pc' = "compute"

\* C1: in a cycle whose fetch raises, scrape_data returns the empty
\* reading, no publish call is issued, and the loop goes on to the wait.
C1_FetchFailureSkipsPublish == []C1_NoPublish /\ [][C1_ThenWait]_vars

C1_Witness ==
    /\ pc = "sleep" /\ raised = "wait"
    /\ ~Truthy(data) /\ sent = <<>>

C2_InOrder ==
    \A i \in 1..Len(sent) :
        sent[i].entity_id = <<"sensor.cgesp_", station_code, "_", Metrics[i]>>

C2_AllSix ==
    /\ Len(sent) <= 6
    /\ C2_InOrder
    /\ (pc \in {"compute", "sleep", "loop"} /\ Truthy(data)) => Len(sent) = 6
    /\ \A o \in PostOutcomes :
           /\ send_sensor_data(o).exc = None
           /\ send_sensor_data(o).value = (o = "ok")

C2_CallGoesOn ==
    Len(sent') = Len(sent) + 1 =>
        pc' = IF Len(sent') < 6 THEN "publish" ELSE "compute"

\* C2: a cycle with a non-empty reading issues the six calls in the order
\* temperature, humidity, rain, wind_speed, pressure, complete, whichever
\* of them fail; a failed call returns False and the next call follows.
C2_SixChannelsAttempted == []C2_AllSix /\ [][C2_CallGoesOn]_vars

C2_Witness ==
    /\ pc = "compute" /\ Len(sent) = 6
    /\ ~sent[1].returned /\ sent[2].returned /\ ~sent[3].returned
    /\ ~sent[5].returned /\ sent[6].returned

\* C3: outside scrape_data no browser session of it is open: each one it
\* starts is quit before it returns or raises.
C3_SessionReleased ==
    /\ browsers \in {0, 1}
    /\ pc \notin ScrapePcs => browsers = 0
    /\ pc \in {"get", "wait", "extract"} => browsers = 1

C3_Witness ==
    /\ pc = "check" /\ raised = "page_source" /\ browsers = 0

C7_Floor ==
    pc = "sleep" =>
        LET elapsed_time == now - start_time
        IN  /\ sleep_time >= 0
            /\ elapsed_time >= scan_interval => sleep_time = 0
            /\ elapsed_time <= scan_interval =>
                   sleep_time = scan_interval - elapsed_time

C7_NextCycle ==
    /\ (pc = "sleep" /\ pc' = "loop") => now' = now + sleep_time
    /\ (pc = "loop" /\ pc' = "setup") => (cycle' = cycle + 1 /\ start_time' = now')

\* C7: the wait is the interval less the cycle's elapsed time, floored at
\* zero; after it the next cycle starts, counted once, its elapsed time
\* measured from its own start.
C7_WaitIsFlooredRemainder == []C7_Floor /\ [][C7_NextCycle]_vars

C7_Witness ==
    /\ cycle = 2 /\ pc = "sleep"
    /\ start_time > scan_interval
    /\ now = start_time /\ scan_interval > 0
    /\ sleep_time = scan_interval

C11_Once ==
    /\ \A i, j \in 1..Len(sent) : i # j => sent[i].entity_id # sent[j].entity_id
    /\ (page # PageBlank \/ raised # None) => pc \notin {"setup", "get"}
    /\ raised # None => pc \notin {"wait", "extract"}

\* A step that fetches the page, and one that issues a state-write call.
C11_FetchStep == pc = "get" /\ pc' \in {"wait", "except"}

C11_SendStep == sent' # sent /\ sent' # <<>>

C11_NoRepeat ==
    /\ pc' = "get" => pc = "setup"
    /\ pc' = "setup" => (pc = "loop" /\ cycle' = cycle + 1)
    /\ C11_FetchStep => (cycle' = cycle /\ (raised' # None <=> pc' = "except"))
    /\ (pc = "except" /\ pc' # "stopped") => pc' = "finally"
    /\ C11_SendStep =>
           /\ cycle' = cycle /\ pc = "publish"
           /\ sent' = Append(sent, sent'[Len(sent')])
           /\ \A i \in 1..Len(sent) : sent[i].entity_id # sent'[Len(sent')].entity_id
           /\ pc' \in {"publish", "compute"}
           /\ Len(sent') = Len(Metrics) <=> pc' = "compute"

\* C11: in one cycle the page is fetched at most once and each channel's
\* call is issued at most once, failed or not; after a failed fetch the
\* cycle goes on to the end of scrape_data, after a failed call to the next
\* channel or the wait, and neither failed operation is done again.
C11_NoRetry == []C11_Once /\ [][C11_NoRepeat]_vars

C11_Witness ==
    /\ cycle = 2 /\ pc = "sleep" /\ raised = None
    /\ Len(sent) = 6
    /\ sent[1].returned /\ ~sent[2].returned /\ ~sent[6].returned

C10_FailureStep ==
    \/ raised = None /\ raised' # None
    \/ fault = NoFault /\ fault' # NoFault
    \/ Len(sent') = Len(sent) + 1 /\ ~sent'[Len(sent')].returned

C10_StopCauses ==
    /\ pc = "stopped" => stopCause \in {"interrupt", "error"}
    /\ pc # "stopped" => stopCause = None

\* How far the program has come: the cycle, then the position in it.
Position ==
    100 * cycle +
        (CASE pc = "setup" -> 1 [] pc = "get" -> 2 [] pc = "wait" -> 3
           [] pc = "extract" -> 4 [] pc = "except" -> 5 [] pc = "finally" -> 6
           [] pc = "check" -> 7 [] pc = "publish" -> 8 + Len(sent)
           [] pc = "compute" -> 20 [] pc = "sleep" -> 21 [] pc = "loop" -> 99
           [] OTHER -> 0)

\* A running loop always has its next step to take (the model stops
\* starting cycles after MaxCycles of them).
C10_NeverStuck ==
    (pc # "stopped" /\ ~(pc = "loop" /\ cycle = MaxCycles)) => ENABLED Body

\* C10: the loop ends only by an interrupt or by an error escaping its
\* body; a fetch, extraction or publish failure does not end it: the step
\* that fails leaves the loop running, and a running loop always has a
\* next step, each one further on towards the wait and the next cycle.
C10_OnlyInterruptOrErrorStops ==
    /\ [](C10_StopCauses /\ C10_NeverStuck)
    /\ [][C10_FailureStep => pc' # "stopped"]_vars
    /\ [][pc' # "stopped" => Position' > Position]_vars

C10_Witness ==
    /\ pc = "loop" /\ cycle = 1 /\ stopCause = None
    /\ fault # NoFault
    /\ \A i \in 1..Len(sent) : ~sent[i].returned
    /\ Len(sent) = 6

====
